---- MODULE Spec2Model ----
(***************************************************************************)
(* Booking lifecycle and equipment-availability reservation logic of the   *)
(* farm-equipment rental server (src/server/routes.ts).                    *)
(*                                                                         *)
(* A request handler that awaits the store or the payment gateway is a     *)
(* process held in a slot of `procs`; every await is one step, so handlers *)
(* interleave exactly where the event loop lets them.  Handlers whose      *)
(* reads cannot be invalidated before their single write are one step.     *)
(* The store (./storage) and the gateway adapter (./payment) are modelled  *)
(* by their contracts.                                                     *)
(***************************************************************************)
EXTENDS Integers, Sequences, FiniteSets, TLC

\* ---------------------------------------------------------------- bounds
MaxBookings == 2
MaxReceipts == 2
MaxTime == 1
\* longest span, in the model's time unit, for which the day count is checked
MaxSpan == 6
\* calls of speak(), instants of the browser's clock, runs of the hook's effect cleanup
MaxSpeakCalls == 3
MaxClock == 6
MaxCleanups == 1

\* ------------------------------------------------------- program constants
\* 1000 * 3600 * 24 ms, in the model's time unit (half a day)
MsPerDay == 2
\* totalAmount * 100, totalPrice * 100: rupees to paise
PaisePerRupee == 100
\* gateway order ids ("order_...") are no booking ids: they are numbered from here
OrderBase == 100
\* SPEECH_DEBOUNCE_MS = 300, in instants of the browser's clock
SpeechDebounceMs == 2

\* ------------------------------------------------------------ input sets
Users == {1, 2}
Renters == {1}
Times == 0..MaxTime
\* requested [startDate, endDate]: any two instants, or the same instant twice
AllRanges == Times \X Times
SameDayRanges == {<<d, d>> : d \in Times}
PaymentIds == {"pay_A"}
\* RAZORPAY_WEBHOOK_SECRET when it is set, and the value standing for "not set"
ConfiguredSecret == "whsec"
NoSecret == "unset"
\* the gateway's key secret, which signs payment proofs
KeySecret == "key_secret"

VARIABLES
    equipment,      \* equipment table: id -> [availability, dailyRate, ownerId]
    bookings,       \* bookings table: sequence, the serial id is the index
    receipts,       \* receipts table: sequence, the serial id is the index
    webhookSecret,  \* process.env.RAZORPAY_WEBHOOK_SECRET
    procs,          \* request handlers suspended at an await, one per slot
    response,       \* the response sent by the latest step, if it sent one
    voice           \* the useVoiceAssistant hook of one browser page: its refs, its
                    \* timers and the browser's speech synthesizer

vars == <<equipment, bookings, receipts, webhookSecret, procs, response, voice>>

\* ------------------------------------------------------------ utilities
Max(a, b) == IF a >= b THEN a ELSE b

\* Math.ceil(n / d) for d > 0 and any integer n
CeilDiv(n, d) == IF n >= 0 THEN (n + d - 1) \div d ELSE -((-n) \div d)

\* crypto.createHmac('sha256', key).update(msg).digest('hex')
Hmac(key, msg) == <<"hmac", key, msg>>

BookingIds == 1..Len(bookings)
ReceiptIds == 1..Len(receipts)
Slots == DOMAIN procs

Idle == [kind |-> "idle", pc |-> "done", u |-> 0, e |-> 0, s |-> 0, t |-> 0,
         bk |-> 0, pay |-> "none", failed |-> FALSE, amount |-> 0]

Free(p) == procs[p].pc = "done"

\* a new request takes the lowest free slot (slots are interchangeable)
Accepts(p) == Free(p) /\ \A q \in Slots : q < p => ~Free(q)

\* ------------------------------------------------------------ responses
\* the date fields of a response that carries none, and an absent query parameter
NoDate == -1

NoResponse == [route |-> "none", code |-> "none", id |-> 0, sessionFailed |-> FALSE,
               amount |-> 0, available |-> FALSE, startDate |-> NoDate,
               endDate |-> NoDate]
Unobserved == [NoResponse EXCEPT !.route = "off"]
Observing == response.route # "off"

\* res.status(code).json(...): id is the record the response is about
RespondWith(route, code, id, failed) ==
    response' = IF Observing
                THEN [NoResponse EXCEPT !.route = route, !.code = code, !.id = id,
                                        !.sessionFailed = failed]
                ELSE response

\* res.status(201).json({ booking, razorpayConfig: { amount: razorpayOrder.amount, ... } })
RespondCreated(id, amount) ==
    response' = IF Observing
                THEN [NoResponse EXCEPT !.route = "create", !.code = "201", !.id = id,
                                        !.amount = amount]
                ELSE response

\* res.json({ available, startDate, endDate, message })
RespondAvailability(available, startDate, endDate) ==
    response' = IF Observing
                THEN [NoResponse EXCEPT !.route = "availability", !.code = "200",
                                        !.available = available, !.startDate = startDate,
                                        !.endDate = endDate]
                ELSE response

Respond(route, code) == RespondWith(route, code, 0, FALSE)

\* the step sends no response
Quiet == response' = IF Observing THEN NoResponse ELSE response

\* ------------------------------------------------------------- storage
\* storage.getEquipment(id): the row or undefined
HasEquipment(id) == id \in DOMAIN equipment

\* storage.updateEquipment(id, { availability })
SetAvailability(id, a) ==
    IF HasEquipment(id)
    THEN [equipment EXCEPT ![id].availability = a]
    ELSE equipment

\* storage.getBooking(id): a deleted row is not found
HasBooking(id) == id \in BookingIds /\ bookings[id].status # "deleted"

\* the statuses that hold the slot
HoldingStatuses == {"pending", "awaiting_payment", "paid"}

\* inclusive overlap of [s1, t1] and [s2, t2]
Overlaps(s1, t1, s2, t2) == s1 <= t2 /\ t1 >= s2

\* storage.checkEquipmentAvailability(equipmentId, startDate, endDate)
CheckEquipmentAvailability(e, s, t) ==
    \A b \in BookingIds :
        ~(/\ bookings[b].equipmentId = e
          /\ bookings[b].status \in HoldingStatuses
          /\ Overlaps(bookings[b].startDate, bookings[b].endDate, s, t))

\* the receipts of a booking
ReceiptsOf(b) == {r \in ReceiptIds : receipts[r].bookingId = b}

\* storage.getReceiptByBookingId(bookingId): the first one
FirstReceiptOf(b) == CHOOSE r \in ReceiptsOf(b) : \A q \in ReceiptsOf(b) : r <= q

\* storage.createReceipt({ bookingId, userId, amount, razorpayPaymentId, metadata })
InsertReceipt(b, amount, pay) ==
    Append(receipts,
        [bookingId |-> b, userId |-> bookings[b].userId, amount |-> amount,
         status |-> "paid", razorpayPaymentId |-> pay,
         start |-> bookings[b].startDate, end |-> bookings[b].endDate])

\* ------------------------------------------------------ payment gateway
\* createPaymentSession(bookingId, amount, name): the gateway's order id
OrderIdFor(b) == OrderBase + b

\* the orders the gateway has issued and the server has stored
IssuedOrders == {bookings[b].razorpayOrderId : b \in BookingIds} \ {0}

\* verifyPaymentSignature(orderId, paymentId, signature)
VerifyPaymentSignature(o, pay, sig) == sig = Hmac(KeySecret, <<o, pay>>)

\* generateReceipt(bookingId, paymentId): one receipt per paid booking
GenerateReceipt(b, pay) ==
    IF HasBooking(b) /\ bookings[b].status = "paid" /\ ReceiptsOf(b) = {}
    THEN InsertReceipt(b, bookings[b].totalPrice, pay)
    ELSE receipts

\* handlers suspended before a write that inserts a receipt
PendingReceipts ==
    Cardinality({p \in Slots : procs[p].pc \in
        {"verify_receipt", "receipt_create", "wh_equipment_paid", "wh_receipt"}})

\* ------------------------------------------------------- POST /api/bookings
\* TotalDays without the "+ 1" that includes both start and end dates
TotalDaysExclusive(s, t) == Max(1, CeilDiv(t - s, MsPerDay))

\* rental duration in days including both start and end dates
TotalDays(s, t) == Max(1, CeilDiv(t - s, MsPerDay) + 1)

TotalAmount(e, s, t) == equipment[e].dailyRate * TotalDays(s, t)

\* create handlers that have not inserted their booking yet
PendingInserts == Cardinality({p \in Slots : procs[p].pc \in {"check", "insert"}})

\* isAuthenticated, safeParse, getEquipment and the availability-flag check
CreateStart(p, u, e, s, t) ==
    /\ Accepts(p)
    /\ Len(bookings) + PendingInserts < MaxBookings
    /\ IF ~HasEquipment(e)
       THEN Respond("create", "404_equipment_not_found") /\ UNCHANGED procs
       ELSE IF ~equipment[e].availability
       THEN Respond("create", "400_not_available") /\ UNCHANGED procs
       ELSE /\ procs' = [procs EXCEPT ![p] =
                 [Idle EXCEPT !.kind = "create", !.pc = "check", !.u = u, !.e = e,
                              !.s = s, !.t = t]]
            /\ Quiet
    /\ UNCHANGED <<equipment, bookings, receipts, webhookSecret, voice>>

\* CreateCheck without the `if (!isAvailable) return` of the handler
CreateCheckIgnored(p) ==
    /\ procs[p].pc = "check"
    /\ procs' = [procs EXCEPT ![p].pc = "insert"]
    /\ Quiet
    /\ UNCHANGED <<equipment, bookings, receipts, webhookSecret, voice>>

\* storage.checkEquipmentAvailability
CreateCheck(p) ==
    /\ procs[p].pc = "check"
    /\ IF CheckEquipmentAvailability(procs[p].e, procs[p].s, procs[p].t)
       THEN procs' = [procs EXCEPT ![p].pc = "insert"] /\ Quiet
       ELSE procs' = [procs EXCEPT ![p] = Idle]
            /\ Respond("create", "400_no_longer_available")
    /\ UNCHANGED <<equipment, bookings, receipts, webhookSecret, voice>>

NewBooking(u, e, s, t) ==
    [equipmentId |-> e, userId |-> u, startDate |-> s, endDate |-> t,
     totalPrice |-> TotalAmount(e, s, t), status |-> "pending",
     razorpayOrderId |-> 0, razorpayPaymentId |-> "none"]

\* storage.createBooking; a throw reaches the outer catch
CreateInsert(p, ok) ==
    /\ procs[p].pc = "insert"
    /\ IF ok
       THEN /\ bookings' = Append(bookings,
                   NewBooking(procs[p].u, procs[p].e, procs[p].s, procs[p].t))
            /\ procs' = [procs EXCEPT ![p] =
                   [Idle EXCEPT !.kind = "create", !.pc = "lock", !.bk = Len(bookings) + 1]]
            /\ Quiet
       ELSE /\ procs' = [procs EXCEPT ![p] = Idle]
            /\ Respond("create", "500")
            /\ UNCHANGED bookings
    /\ UNCHANGED <<equipment, receipts, webhookSecret, voice>>

\* lock equipment by marking it unavailable
CreateLock(p, ok) ==
    /\ procs[p].pc = "lock"
    /\ IF ok
       THEN /\ equipment' = SetAvailability(bookings[procs[p].bk].equipmentId, FALSE)
            /\ procs' = [procs EXCEPT ![p].pc = "session"]
       ELSE /\ procs' = [procs EXCEPT ![p].pc = "rollback_equipment"]
            /\ UNCHANGED equipment
    /\ Quiet
    /\ UNCHANGED <<bookings, receipts, webhookSecret, voice>>

\* the amount handed to the gateway: totalAmount * 100
GatewayAmountRupees(totalAmount) == totalAmount

GatewayAmount(totalAmount) == totalAmount * PaisePerRupee

\* createPaymentSession(booking.id, totalAmount * 100, equipment.name); razorpayOrder
\* carries the amount the gateway was asked for
CreateSession(p, ok) ==
    /\ procs[p].pc = "session"
    /\ procs' = [procs EXCEPT ![p] =
          IF ok THEN [procs[p] EXCEPT !.pc = "update",
                         !.amount = GatewayAmount(bookings[procs[p].bk].totalPrice)]
          ELSE [procs[p] EXCEPT !.pc = "rollback_equipment", !.failed = TRUE]]
    /\ Quiet
    /\ UNCHANGED <<equipment, bookings, receipts, webhookSecret, voice>>

\* storage.updateBooking(booking.id, { status: 'awaiting_payment', razorpayOrderId })
CreateUpdate(p, ok) ==
    /\ procs[p].pc = "update"
    /\ IF ok
       THEN /\ bookings' = [bookings EXCEPT
                   ![procs[p].bk].status = "awaiting_payment",
                   ![procs[p].bk].razorpayOrderId = OrderIdFor(procs[p].bk)]
            /\ procs' = [procs EXCEPT ![p] = Idle]
            /\ RespondCreated(procs[p].bk, procs[p].amount)
       ELSE /\ procs' = [procs EXCEPT ![p].pc = "rollback_equipment", ![p].amount = 0]
            /\ Quiet
            /\ UNCHANGED bookings
    /\ UNCHANGED <<equipment, receipts, webhookSecret, voice>>

\* catch (paymentError): revert equipment availability
CreateRollbackEquipment(p, ok) ==
    /\ procs[p].pc = "rollback_equipment"
    /\ IF ok
       THEN /\ equipment' = SetAvailability(bookings[procs[p].bk].equipmentId, TRUE)
            /\ procs' = [procs EXCEPT ![p].pc = "rollback_booking"]
            /\ Quiet
       ELSE /\ procs' = [procs EXCEPT ![p] = Idle]
            /\ RespondWith("create", "500", procs[p].bk, procs[p].failed)
            /\ UNCHANGED equipment
    /\ UNCHANGED <<bookings, receipts, webhookSecret, voice>>

\* catch (paymentError): update booking status to payment_failed
CreateRollbackBooking(p, ok) ==
    /\ procs[p].pc = "rollback_booking"
    /\ IF ok
       THEN /\ bookings' = [bookings EXCEPT ![procs[p].bk].status = "payment_failed"]
            /\ RespondWith("create", "400_payment_order_failed", procs[p].bk,
                           procs[p].failed)
       ELSE /\ RespondWith("create", "500", procs[p].bk, procs[p].failed)
            /\ UNCHANGED bookings
    /\ procs' = [procs EXCEPT ![p] = Idle]
    /\ UNCHANGED <<equipment, receipts, webhookSecret, voice>>

\* ------------------------------------------ GET /api/equipment/:id/availability
\* endDate.setDate(endDate.getDate() + 30)
ThirtyDays == 30 * MsPerDay

\* the start date without "if (startDate < now) startDate = now"
ResolvedStartUnclamped(now, qs) == IF qs = NoDate THEN now ELSE qs

\* startDate: the query's, or now; a start in the past is replaced by now
ResolvedStart(now, qs) ==
    LET startDate == IF qs = NoDate THEN now ELSE qs
    IN  IF startDate < now THEN now ELSE startDate

\* endDate: the query's, or now + 30 days; an end not after the start is replaced by
\* start + 30 days
ResolvedEnd(now, qs, qt) ==
    LET endDate == IF qt = NoDate THEN now + ThirtyDays ELSE qt
    IN  IF endDate <= ResolvedStart(now, qs)
        THEN ResolvedStart(now, qs) + ThirtyDays
        ELSE endDate

\* GetAvailability without "if (!equipment.availability) return { available: false }"
GetAvailabilityByRangeOnly(e, now, qs, qt) ==
    /\ IF ~HasEquipment(e)
       THEN Respond("availability", "404_equipment_not_found")
       ELSE RespondAvailability(
                CheckEquipmentAvailability(e, ResolvedStart(now, qs),
                                           ResolvedEnd(now, qs, qt)),
                ResolvedStart(now, qs), ResolvedEnd(now, qs, qt))
    /\ UNCHANGED <<equipment, bookings, receipts, webhookSecret, procs, voice>>

\* the whole handler: it reads the store and writes nothing
GetAvailability(e, now, qs, qt) ==
    /\ IF ~HasEquipment(e)
       THEN Respond("availability", "404_equipment_not_found")
       ELSE IF ~equipment[e].availability
       THEN RespondAvailability(FALSE, NoDate, NoDate)
       ELSE RespondAvailability(
                CheckEquipmentAvailability(e, ResolvedStart(now, qs),
                                           ResolvedEnd(now, qs, qt)),
                ResolvedStart(now, qs), ResolvedEnd(now, qs, qt))
    /\ UNCHANGED <<equipment, bookings, receipts, webhookSecret, procs, voice>>

\* --------------------------------------- PATCH /api/equipment/:id/availability
\* getEquipment, the ownership check and updateEquipment({ availability: available })
PatchAvailability(u, e, available) ==
    /\ IF ~HasEquipment(e)
       THEN Respond("patch_availability", "404_equipment_not_found") /\ UNCHANGED equipment
       ELSE IF equipment[e].ownerId # u
       THEN Respond("patch_availability", "403") /\ UNCHANGED equipment
       ELSE /\ equipment' = SetAvailability(e, available)
            /\ Respond("patch_availability", "200")
    /\ UNCHANGED <<bookings, receipts, webhookSecret, procs, voice>>

\* ------------------------------------------------------ PATCH /api/equipment/:id
\* updateData = { ...req.body }: the body may carry an availability field
PatchEquipment(u, e, available) ==
    /\ IF ~HasEquipment(e)
       THEN Respond("patch_equipment", "404_equipment_not_found") /\ UNCHANGED equipment
       ELSE IF equipment[e].ownerId # u
       THEN Respond("patch_equipment", "403") /\ UNCHANGED equipment
       ELSE /\ equipment' = SetAvailability(e, available)
            /\ Respond("patch_equipment", "200")
    /\ UNCHANGED <<bookings, receipts, webhookSecret, procs, voice>>

\* ------------------------------------------- POST /api/bookings/verify-payment
\* the receipt amount written by the routes: booking.totalPrice * 100
ReceiptAmount(totalPrice) == totalPrice * PaisePerRupee

\* VerifyStart without the `if (!isValid) return` of the handler
VerifyStartUnchecked(p, b, o, pay, sig) ==
    /\ Accepts(p)
    /\ Len(receipts) + PendingReceipts < MaxReceipts
    /\ IF ~HasBooking(b)
       THEN Respond("verify", "404_booking_not_found") /\ UNCHANGED <<bookings, procs>>
       ELSE IF ~HasEquipment(bookings[b].equipmentId)
       THEN Respond("verify", "404_equipment_not_found") /\ UNCHANGED <<bookings, procs>>
       ELSE /\ bookings' = [bookings EXCEPT ![b].status = "paid",
                                            ![b].razorpayPaymentId = pay]
            /\ procs' = [procs EXCEPT ![p] =
                   [Idle EXCEPT !.kind = "verify", !.pc = "verify_receipt",
                                !.bk = b, !.pay = pay]]
            /\ Quiet
    /\ UNCHANGED <<equipment, receipts, webhookSecret, voice>>

\* getBooking, getEquipment, verifyPaymentSignature and updateBooking({ status: 'paid' })
VerifyStart(p, b, o, pay, sig) ==
    /\ Accepts(p)
    /\ Len(receipts) + PendingReceipts < MaxReceipts
    /\ IF ~HasBooking(b)
       THEN Respond("verify", "404_booking_not_found") /\ UNCHANGED <<bookings, procs>>
       ELSE IF ~HasEquipment(bookings[b].equipmentId)
       THEN Respond("verify", "404_equipment_not_found") /\ UNCHANGED <<bookings, procs>>
       ELSE IF ~VerifyPaymentSignature(o, pay, sig)
       THEN RespondWith("verify", "400_invalid_signature", b, FALSE)
            /\ UNCHANGED <<bookings, procs>>
       ELSE /\ bookings' = [bookings EXCEPT ![b].status = "paid",
                                            ![b].razorpayPaymentId = pay]
            /\ procs' = [procs EXCEPT ![p] =
                   [Idle EXCEPT !.kind = "verify", !.pc = "verify_receipt",
                                !.bk = b, !.pay = pay]]
            /\ Quiet
    /\ UNCHANGED <<equipment, receipts, webhookSecret, voice>>

\* storage.createReceipt and the success response; a throw reaches the outer catch
VerifyReceipt(p, ok) ==
    /\ procs[p].pc = "verify_receipt"
    /\ IF ok
       THEN /\ receipts' = InsertReceipt(procs[p].bk,
                   ReceiptAmount(bookings[procs[p].bk].totalPrice), procs[p].pay)
            /\ RespondWith("verify", "200", Len(receipts) + 1, FALSE)
       ELSE /\ RespondWith("verify", "500", procs[p].bk, FALSE)
            /\ UNCHANGED receipts
    /\ procs' = [procs EXCEPT ![p] = Idle]
    /\ UNCHANGED <<equipment, bookings, webhookSecret, voice>>

\* ------------------------------------------------ GET /api/receipts/:id/download
\* rentalDays, the day count printed on the PDF receipt
RentalDays(s, t) == Max(1, CeilDiv(t - s, MsPerDay) + 1)

\* formatAmount, the rupee figure printed on the PDF: Math.floor(amount / 100)
FormatAmount(amount) == amount \div PaisePerRupee

\* ------------------------------------------------------- ReceiptHistory.tsx
\* daysRented, the day count of the receipt detail view, from metadata.booking_dates
DaysRented(s, t) == CeilDiv(t - s, MsPerDay)

\* formatRupees, the rupee figure of the receipt-history page: amount / 100 formatted
\* with no fraction digits (rounded to the nearest rupee)
FormatRupees(amount) == (2 * amount + PaisePerRupee) \div (2 * PaisePerRupee)

\* ---------------------------------------------- GET /api/bookings/:id/receipt
\* getBooking and getReceiptByBookingId
ReceiptStart(p, u, b) ==
    /\ Accepts(p)
    /\ Len(receipts) + PendingReceipts < MaxReceipts
    /\ IF ~HasBooking(b)
       THEN Respond("receipt", "404_booking_not_found") /\ UNCHANGED procs
       ELSE IF ReceiptsOf(b) # {}
       THEN /\ IF receipts[FirstReceiptOf(b)].userId # u
               THEN Respond("receipt", "403")
               ELSE RespondWith("receipt", "200", FirstReceiptOf(b), FALSE)
            /\ UNCHANGED procs
       ELSE IF bookings[b].status = "paid"
       THEN /\ procs' = [procs EXCEPT ![p] =
                   [Idle EXCEPT !.kind = "receipt", !.pc = "receipt_create", !.bk = b,
                                !.pay = bookings[b].razorpayPaymentId]]
            /\ Quiet
       ELSE Respond("receipt", "404_receipt_not_found") /\ UNCHANGED procs
    /\ UNCHANGED <<equipment, bookings, receipts, webhookSecret, voice>>

\* create the receipt if it does not exist for a paid booking; a throw reaches the catch
ReceiptCreate(p, ok) ==
    /\ procs[p].pc = "receipt_create"
    /\ IF ok
       THEN /\ receipts' = InsertReceipt(procs[p].bk,
                   ReceiptAmount(bookings[procs[p].bk].totalPrice), procs[p].pay)
            /\ RespondWith("receipt", "200", Len(receipts) + 1, FALSE)
       ELSE /\ RespondWith("receipt", "500", procs[p].bk, FALSE)
            /\ UNCHANGED receipts
    /\ procs' = [procs EXCEPT ![p] = Idle]
    /\ UNCHANGED <<equipment, bookings, webhookSecret, voice>>

\* ------------------------------------------------ POST /api/webhooks/razorpay
\* if the webhook secret is configured, the signature header must match the HMAC of the body
SignatureAccepted(header, body) ==
    webhookSecret # NoSecret =>
        /\ header # <<"missing">>
        /\ header = Hmac(webhookSecret, body)

\* handleWebhookEvent: the booking id is read from payload.payment.order_id
HandleWebhookEvent(body) ==
    IF body.status = "captured"
    THEN [status |-> "success", bookingId |-> body.order_id, paymentId |-> body.id]
    ELSE IF body.status = "failed"
    THEN [status |-> "failed", bookingId |-> body.order_id, paymentId |-> "none"]
    ELSE [status |-> "null", bookingId |-> 0, paymentId |-> "none"]

\* the signature check, handleWebhookEvent and storage.updateBooking
WebhookStart(p, header, body) ==
    /\ Accepts(p)
    /\ Len(receipts) + PendingReceipts < MaxReceipts
    /\ LET result == HandleWebhookEvent(body) IN
       IF ~SignatureAccepted(header, body)
       THEN Respond("webhook", "400_signature") /\ UNCHANGED <<bookings, procs>>
       ELSE IF result.status = "null" \/ ~HasBooking(result.bookingId)
       THEN Respond("webhook", "200_received") /\ UNCHANGED <<bookings, procs>>
       ELSE IF result.status = "success"
       THEN /\ bookings' = [bookings EXCEPT ![result.bookingId].status = "paid",
                               ![result.bookingId].razorpayPaymentId = result.paymentId]
            /\ procs' = [procs EXCEPT ![p] =
                   [Idle EXCEPT !.kind = "webhook", !.pc = "wh_equipment_paid",
                                !.bk = result.bookingId, !.pay = result.paymentId]]
            /\ Quiet
       ELSE /\ bookings' = [bookings EXCEPT ![result.bookingId].status = "payment_failed"]
            /\ procs' = [procs EXCEPT ![p] =
                   [Idle EXCEPT !.kind = "webhook", !.pc = "wh_equipment_failed",
                                !.bk = result.bookingId]]
            /\ Quiet
    /\ UNCHANGED <<equipment, receipts, webhookSecret, voice>>

\* success: storage.updateEquipment(booking.equipmentId, { availability: false })
WebhookEquipmentPaid(p) ==
    /\ procs[p].pc = "wh_equipment_paid"
    /\ equipment' = SetAvailability(bookings[procs[p].bk].equipmentId, FALSE)
    /\ procs' = [procs EXCEPT ![p].pc = "wh_receipt"]
    /\ Quiet
    /\ UNCHANGED <<bookings, receipts, webhookSecret, voice>>

\* success: generateReceipt(result.bookingId, result.paymentId)
WebhookReceipt(p) ==
    /\ procs[p].pc = "wh_receipt"
    /\ receipts' = GenerateReceipt(procs[p].bk, procs[p].pay)
    /\ procs' = [procs EXCEPT ![p] = Idle]
    /\ Respond("webhook", "200_received")
    /\ UNCHANGED <<equipment, bookings, webhookSecret, voice>>

\* failed: storage.updateEquipment(booking.equipmentId, { availability: true })
WebhookEquipmentFailed(p) ==
    /\ procs[p].pc = "wh_equipment_failed"
    /\ equipment' = SetAvailability(bookings[procs[p].bk].equipmentId, TRUE)
    /\ procs' = [procs EXCEPT ![p] = Idle]
    /\ Respond("webhook", "200_received")
    /\ UNCHANGED <<bookings, receipts, webhookSecret, voice>>

\* ------------------------------------------------- DELETE /api/equipment/:id
\* what is left of a booking row once it is deleted: serial ids are not reused
DeletedBooking ==
    [equipmentId |-> 0, userId |-> 0, startDate |-> 0, endDate |-> 0, totalPrice |-> 0,
     status |-> "deleted", razorpayOrderId |-> 0, razorpayPaymentId |-> "none"]

\* storage.deleteEquipment(equipmentId): the equipment row
RemoveEquipment(e) == [x \in DOMAIN equipment \ {e} |-> equipment[x]]

\* storage.deleteEquipmentBookings(equipmentId): the booking rows of the equipment
RemoveEquipmentBookings(e) ==
    [b \in BookingIds |->
        IF bookings[b].equipmentId = e THEN DeletedBooking ELSE bookings[b]]

\* getEquipment and the owner check (no user of the model is an admin)
DeleteStart(p, u, e) ==
    /\ Accepts(p)
    /\ IF ~HasEquipment(e)
       THEN Respond("delete", "404_equipment_not_found") /\ UNCHANGED procs
       ELSE IF equipment[e].ownerId # u
       THEN Respond("delete", "403") /\ UNCHANGED procs
       ELSE /\ procs' = [procs EXCEPT ![p] =
                 [Idle EXCEPT !.kind = "delete", !.pc = "delete_equipment", !.e = e]]
            /\ Quiet
    /\ UNCHANGED <<equipment, bookings, receipts, webhookSecret, voice>>

\* await storage.deleteEquipment(equipmentId); a throw reaches the catch
DeleteEquipment(p, ok) ==
    /\ procs[p].pc = "delete_equipment"
    /\ IF ok
       THEN /\ equipment' = RemoveEquipment(procs[p].e)
            /\ procs' = [procs EXCEPT ![p].pc = "delete_bookings"]
            /\ Quiet
       ELSE /\ procs' = [procs EXCEPT ![p] = Idle]
            /\ Respond("delete", "500")
            /\ UNCHANGED equipment
    /\ UNCHANGED <<bookings, receipts, webhookSecret, voice>>

\* await storage.deleteEquipmentBookings(equipmentId) and the response; no receipt is
\* deleted by the handler
DeleteBookings(p, ok) ==
    /\ procs[p].pc = "delete_bookings"
    /\ IF ok
       THEN /\ bookings' = RemoveEquipmentBookings(procs[p].e)
            /\ Respond("delete", "200")
       ELSE /\ Respond("delete", "500")
            /\ UNCHANGED bookings
    /\ procs' = [procs EXCEPT ![p] = Idle]
    /\ UNCHANGED <<equipment, receipts, webhookSecret, voice>>

\* ---------------------------------------------------------- fix-receipts.ts
\* the amount the script leaves on a receipt: correctAmount is the booking's totalPrice
FixedAmount(currentAmount, correctAmount) ==
    IF currentAmount = correctAmount * 100 THEN correctAmount
    ELSE IF currentAmount = correctAmount * 10 THEN correctAmount
    ELSE IF currentAmount # correctAmount THEN correctAmount
    ELSE currentAmount

\* fixReceiptAmounts: every receipt joined with its booking, one UPDATE per row that
\* differs; run while no request is in flight
FixReceiptAmounts ==
    /\ \A p \in Slots : Free(p)
    /\ receipts' = [r \in ReceiptIds |->
          IF HasBooking(receipts[r].bookingId)
          THEN [receipts[r] EXCEPT !.amount =
                   FixedAmount(receipts[r].amount,
                               bookings[receipts[r].bookingId].totalPrice)]
          ELSE receipts[r]]
    /\ UNCHANGED <<equipment, bookings, webhookSecret, procs, response, voice>>

\* ------------------------------------------------------- useVoiceAssistant
\* speechTimeoutRef.current when no debounce timer is pending
NoTimer == [text |-> 0, due |-> 0]

\* the hook as it is mounted: useRef([]), useRef(false), useRef(null), useRef(0); texts
\* are numbered by the call of speak() that passed them; Date.now() is far past 0
VoiceInit ==
    [speechQueue |-> <<>>, isSpeakingRef |-> FALSE, speechTimeoutRef |-> NoTimer,
     lastSpeechTime |-> 0,
     clock |-> SpeechDebounceMs,    \* Date.now()
     mounted |-> TRUE,
     voicesLoaded |-> TRUE,         \* speechSynthesis.getVoices().length > 0
     onvoiceschanged |-> FALSE,     \* speechSynthesis.onvoiceschanged = processSpeechQueue
     pendingSpeak |-> <<>>,         \* setTimeout(() => speechSynthesis.speak(utterance), 50)
     synth |-> <<>>,                \* the synthesizer's utterances, the first being spoken
     pendingEnds |-> 0,             \* end events of cancelled utterances not yet delivered
     pendingProcess |-> 0,          \* setTimeout(processSpeechQueue, 100) not yet run
     spoken |-> <<>>,               \* the texts spoken to their end, in order
     speakCalls |-> 0, cleanups |-> 0]

\* processSpeechQueue; endFires: whether the utterance cut off by cancel() gets its end
\* event
ProcessSpeechQueue(v, endFires) ==
    IF v.isSpeakingRef \/ v.speechQueue = <<>>
    THEN v
    ELSE [v EXCEPT !.speechQueue = Tail(@),
                   !.isSpeakingRef = TRUE,
                   !.synth = <<>>,
                   !.pendingEnds = IF v.synth # <<>> /\ endFires THEN @ + 1 ELSE @,
                   !.pendingSpeak = Append(@, Head(v.speechQueue))]

\* speak(text)
Speak(endFires) ==
    /\ voice.mounted
    /\ voice.speakCalls < MaxSpeakCalls
    /\ voice.clock + SpeechDebounceMs <= MaxClock
    /\ LET text == voice.speakCalls + 1
           called == [voice EXCEPT !.speakCalls = text]
           pushed == [called EXCEPT !.lastSpeechTime = voice.clock,
                                    !.speechQueue = Append(@, text)]
       IN  voice' =
             IF voice.clock - voice.lastSpeechTime < SpeechDebounceMs
             THEN [called EXCEPT !.speechTimeoutRef =
                      [text |-> text, due |-> voice.clock + SpeechDebounceMs]]
             ELSE IF ~voice.voicesLoaded
             THEN [pushed EXCEPT !.onvoiceschanged = TRUE]
             ELSE ProcessSpeechQueue(pushed, endFires)
    /\ UNCHANGED <<equipment, bookings, receipts, webhookSecret, procs, response>>

\* the debounce timer set by speak fires
DebounceFires(endFires) ==
    /\ voice.speechTimeoutRef # NoTimer
    /\ voice.clock >= voice.speechTimeoutRef.due
    /\ voice' = ProcessSpeechQueue(
                   [voice EXCEPT !.speechQueue = Append(@, voice.speechTimeoutRef.text),
                                 !.lastSpeechTime = voice.clock,
                                 !.speechTimeoutRef = NoTimer],
                   endFires)
    /\ UNCHANGED <<equipment, bookings, receipts, webhookSecret, procs, response>>

\* the 50 ms timer of processSpeechQueue fires: window.speechSynthesis.speak(utterance)
SynthesisSpeak ==
    /\ voice.pendingSpeak # <<>>
    /\ voice' = [voice EXCEPT !.pendingSpeak = Tail(@),
                              !.synth = Append(@, Head(voice.pendingSpeak))]
    /\ UNCHANGED <<equipment, bookings, receipts, webhookSecret, procs, response>>

\* utterance.onend of the utterance that was being spoken
UtteranceEnds ==
    /\ voice.synth # <<>>
    /\ voice' = [voice EXCEPT !.synth = Tail(@),
                              !.spoken = Append(@, Head(voice.synth)),
                              !.isSpeakingRef = FALSE,
                              !.pendingProcess = @ + 1]
    /\ UNCHANGED <<equipment, bookings, receipts, webhookSecret, procs, response>>

\* utterance.onend of an utterance that was cut off by cancel()
CancelledUtteranceEnds ==
    /\ voice.pendingEnds > 0
    /\ voice' = [voice EXCEPT !.pendingEnds = @ - 1,
                              !.isSpeakingRef = FALSE,
                              !.pendingProcess = @ + 1]
    /\ UNCHANGED <<equipment, bookings, receipts, webhookSecret, procs, response>>

\* the 100 ms timer of onend fires: processSpeechQueue()
ProcessTimerFires(endFires) ==
    /\ voice.pendingProcess > 0
    /\ voice' = ProcessSpeechQueue([voice EXCEPT !.pendingProcess = @ - 1], endFires)
    /\ UNCHANGED <<equipment, bookings, receipts, webhookSecret, procs, response>>

\* the browser's clock advances by half the debounce delay; the 50 ms and 100 ms timers
\* have fired by then, and so has a debounce timer that was due
Tick ==
    /\ voice.clock < MaxClock
    /\ voice.pendingSpeak = <<>>
    /\ voice.pendingProcess = 0
    /\ voice.speechTimeoutRef = NoTimer \/ voice.clock < voice.speechTimeoutRef.due
    /\ voice' = [voice EXCEPT !.clock = @ + 1]
    /\ UNCHANGED <<equipment, bookings, receipts, webhookSecret, procs, response>>

\* the cleanup of the effect on [isListening, stopListening, clearAllTimeouts]: it runs
\* when the component unmounts and whenever one of the three changes, that is each time
\* listening starts or stops
EffectCleanup(unmount, endFires) ==
    /\ voice.mounted
    /\ voice.cleanups < MaxCleanups
    /\ voice' = [voice EXCEPT !.synth = <<>>,
                              !.pendingEnds = IF voice.synth # <<>> /\ endFires
                                              THEN @ + 1 ELSE @,
                              !.speechTimeoutRef = NoTimer,
                              !.speechQueue = <<>>,
                              !.isSpeakingRef = FALSE,
                              !.mounted = ~unmount,
                              !.cleanups = @ + 1]
    /\ UNCHANGED <<equipment, bookings, receipts, webhookSecret, procs, response>>

\* ------------------------------------------------------------------ inputs
\* the equipment ids a request may name: the existing ones and one that does not exist
RequestEquipIds == DOMAIN equipment \cup {Cardinality(DOMAIN equipment) + 1}

\* the booking ids a request may name: the existing ones and one that does not exist
RequestBookingIds == 1..(Len(bookings) + 1)

\* the order ids a payment proof may name
RequestOrderIds == {OrderIdFor(b) : b \in 1..MaxBookings}

\* the signatures a client can submit for (o, pay): the gateway signs only its own orders
ProofSignatures(o, pay) ==
    {Hmac("guess", <<o, pay>>)} \cup
    (IF o \in IssuedOrders THEN {Hmac(KeySecret, <<o, pay>>)} ELSE {})

\* webhook events: the gateway names its orders, anyone else may name anything
WebhookBodies ==
    [status : {"captured", "failed", "authorized"},
     order_id : RequestBookingIds \cup IssuedOrders,
     id : PaymentIds]

\* the signature headers a sender can attach: none, a guess, or the gateway's
WebhookHeaders(body) ==
    {<<"missing">>, Hmac("guess", body)} \cup
    (IF body.order_id \in IssuedOrders THEN {Hmac(ConfiguredSecret, body)} ELSE {})

\* ------------------------------------------------------------ behaviour
\* the store after the equipment rows are listed (availability: true), before any booking
InitStore(equipIds) ==
    /\ equipment = [e \in equipIds |->
          [availability |-> TRUE, dailyRate |-> 500 * e, ownerId |-> 1]]
    /\ bookings = <<>>
    /\ receipts = <<>>
    /\ webhookSecret \in {NoSecret, ConfiguredSecret}

\* two handlers in flight, one equipment
Init ==
    /\ InitStore({1})
    /\ procs = [p \in {1, 2} |-> Idle]
    /\ response = Unobserved
    /\ voice = VoiceInit

\* every step of a handler in a slot but the receipt of a create request
Handlers ==
    \/ \E p \in Slots : CreateCheck(p)
    \/ \E p \in Slots, ok \in BOOLEAN : CreateInsert(p, ok)
    \/ \E p \in Slots, ok \in BOOLEAN : CreateLock(p, ok)
    \/ \E p \in Slots, ok \in BOOLEAN : CreateSession(p, ok)
    \/ \E p \in Slots, ok \in BOOLEAN : CreateUpdate(p, ok)
    \/ \E p \in Slots, ok \in BOOLEAN : CreateRollbackEquipment(p, ok)
    \/ \E p \in Slots, ok \in BOOLEAN : CreateRollbackBooking(p, ok)
    \/ \E p \in Slots, b \in RequestBookingIds, o \in RequestOrderIds, pay \in PaymentIds :
           \E sig \in ProofSignatures(o, pay) : VerifyStart(p, b, o, pay, sig)
    \/ \E p \in Slots, ok \in BOOLEAN : VerifyReceipt(p, ok)
    \/ \E p \in Slots, u \in Users, b \in RequestBookingIds : ReceiptStart(p, u, b)
    \/ \E p \in Slots, ok \in BOOLEAN : ReceiptCreate(p, ok)
    \/ \E p \in Slots, body \in WebhookBodies :
           \E header \in WebhookHeaders(body) : WebhookStart(p, header, body)
    \/ \E p \in Slots : WebhookEquipmentPaid(p)
    \/ \E p \in Slots : WebhookReceipt(p)
    \/ \E p \in Slots : WebhookEquipmentFailed(p)

\* the query dates a request may carry: an instant, or no parameter
QueryDates == Times \cup {NoDate}

\* read-only requests, each a single step; the dates of a query for an equipment that
\* does not exist are never read
Queries ==
    \/ \E e \in DOMAIN equipment, now \in Times, qs \in QueryDates, qt \in QueryDates :
           GetAvailability(e, now, qs, qt)
    \/ \E e \in RequestEquipIds \ DOMAIN equipment, now \in Times :
           GetAvailability(e, now, NoDate, NoDate)

\* the owner's requests, each a single step
OwnerRequests ==
    \/ \E u \in Users, e \in RequestEquipIds, a \in BOOLEAN : PatchAvailability(u, e, a)
    \/ \E u \in Users, e \in RequestEquipIds, a \in BOOLEAN : PatchEquipment(u, e, a)

Next ==
    \/ \E p \in Slots, u \in Renters, e \in RequestEquipIds, r \in SameDayRanges :
           CreateStart(p, u, e, r[1], r[2])
    \/ Handlers
    \/ OwnerRequests
    \/ Queries

Spec == Init /\ [][Next]_vars

\* one handler at a time, every date range, responses observed
InitSeq ==
    /\ InitStore({1})
    /\ procs = [p \in {1} |-> Idle]
    /\ response = NoResponse
    /\ voice = VoiceInit

NextSeq ==
    \/ \E p \in Slots, u \in Renters, e \in RequestEquipIds, r \in AllRanges :
           CreateStart(p, u, e, r[1], r[2])
    \/ Handlers
    \/ (\A p \in Slots : Free(p)) /\ OwnerRequests
    \/ (\A p \in Slots : Free(p)) /\ Queries

SpecSeq == InitSeq /\ [][NextSeq]_vars

\* the steps of the delete handler
DeleteHandlers ==
    \/ \E p \in Slots, u \in Users, e \in RequestEquipIds : DeleteStart(p, u, e)
    \/ \E p \in Slots, ok \in BOOLEAN : DeleteEquipment(p, ok)
    \/ \E p \in Slots, ok \in BOOLEAN : DeleteBookings(p, ok)

\* one handler in flight, the owner's requests at any time, equipment deletion included
InitDelete ==
    /\ InitStore({1})
    /\ procs = [p \in {1} |-> Idle]
    /\ response = Unobserved
    /\ voice = VoiceInit

NextDelete ==
    \/ \E p \in Slots, u \in Renters, e \in RequestEquipIds, r \in SameDayRanges :
           CreateStart(p, u, e, r[1], r[2])
    \/ Handlers
    \/ OwnerRequests
    \/ DeleteHandlers

SpecDelete == InitDelete /\ [][NextDelete]_vars

\* the steps that resume a handler suspended at an await
InFlightSteps ==
    \/ \E p \in Slots : CreateCheck(p)
    \/ \E p \in Slots, ok \in BOOLEAN : CreateInsert(p, ok)
    \/ \E p \in Slots, ok \in BOOLEAN : CreateLock(p, ok)
    \/ \E p \in Slots, ok \in BOOLEAN : CreateSession(p, ok)
    \/ \E p \in Slots, ok \in BOOLEAN : CreateUpdate(p, ok)
    \/ \E p \in Slots, ok \in BOOLEAN : CreateRollbackEquipment(p, ok)
    \/ \E p \in Slots, ok \in BOOLEAN : CreateRollbackBooking(p, ok)
    \/ \E p \in Slots, ok \in BOOLEAN : VerifyReceipt(p, ok)
    \/ \E p \in Slots, ok \in BOOLEAN : ReceiptCreate(p, ok)
    \/ \E p \in Slots : WebhookEquipmentPaid(p)
    \/ \E p \in Slots : WebhookReceipt(p)
    \/ \E p \in Slots : WebhookEquipmentFailed(p)

\* one handler in flight; every awaited call returns, so a suspended handler is resumed,
\* while no request and no gateway callback is bound to arrive: the server starts no
\* timer and no job of its own
InitLive ==
    /\ InitStore({1})
    /\ procs = [p \in {1} |-> Idle]
    /\ response = Unobserved
    /\ voice = VoiceInit

NextLive ==
    \/ \E p \in Slots, u \in Renters, e \in RequestEquipIds, r \in SameDayRanges :
           CreateStart(p, u, e, r[1], r[2])
    \/ Handlers
    \/ OwnerRequests

SpecLive == InitLive /\ [][NextLive]_vars /\ WF_vars(InFlightSteps)

\* one handler in flight and the fix-receipts script, run at any quiet moment
InitFix ==
    /\ InitStore({1})
    /\ procs = [p \in {1} |-> Idle]
    /\ response = Unobserved
    /\ voice = VoiceInit

NextFix ==
    \/ \E p \in Slots, u \in Renters, e \in RequestEquipIds, r \in SameDayRanges :
           CreateStart(p, u, e, r[1], r[2])
    \/ Handlers
    \/ OwnerRequests
    \/ FixReceiptAmounts

SpecFix == InitFix /\ [][NextFix]_vars

\* the voice assistant of one page, the server at rest; timers that are due fire, the
\* clock advances and utterances end
InitVoice ==
    /\ InitStore({1})
    /\ procs = [p \in {1} |-> Idle]
    /\ response = Unobserved
    /\ voice \in {VoiceInit, [VoiceInit EXCEPT !.voicesLoaded = FALSE]}

\* the browser's voice list arrives: onvoiceschanged
VoicesChanged(endFires) ==
    /\ ~voice.voicesLoaded
    /\ voice' = IF voice.onvoiceschanged
                THEN ProcessSpeechQueue([voice EXCEPT !.voicesLoaded = TRUE], endFires)
                ELSE [voice EXCEPT !.voicesLoaded = TRUE]
    /\ UNCHANGED <<equipment, bookings, receipts, webhookSecret, procs, response>>

\* what the browser does by itself
BrowserSteps ==
    \/ \E endFires \in BOOLEAN : DebounceFires(endFires)
    \/ SynthesisSpeak
    \/ UtteranceEnds
    \/ CancelledUtteranceEnds
    \/ \E endFires \in BOOLEAN : ProcessTimerFires(endFires)
    \/ \E endFires \in BOOLEAN : VoicesChanged(endFires)
    \/ Tick

NextVoice ==
    \/ \E endFires \in BOOLEAN : Speak(endFires)
    \/ \E unmount \in BOOLEAN, endFires \in BOOLEAN : EffectCleanup(unmount, endFires)
    \/ BrowserSteps

SpecVoice == InitVoice /\ [][NextVoice]_vars /\ WF_vars(BrowserSteps)

\* ================================================================== claims
\* ------------------------------------------------------------------- C1
\* C1: for any interleaving of concurrent create requests for the same equipment whose
\* date ranges overlap, at most one of the resulting bookings is granted the slot:
\* no two of them are in status awaiting_payment at the same time.
NoDoubleBooking ==
    \A a, b \in BookingIds :
        (/\ a # b
         /\ bookings[a].equipmentId = bookings[b].equipmentId
         /\ Overlaps(bookings[a].startDate, bookings[a].endDate,
                     bookings[b].startDate, bookings[b].endDate)
         /\ bookings[a].status = "awaiting_payment")
        => bookings[b].status # "awaiting_payment"

\* ------------------------------------------------------------------- C2
\* the create handler of booking b is past its lock step and has not begun to roll back
LockHeld(b) ==
    \E p \in Slots : /\ procs[p].kind = "create"
                     /\ procs[p].bk = b
                     /\ procs[p].pc \in {"session", "update"}

\* awaiting_payment, or pending after the lock step
ActiveBooking(b) ==
    \/ bookings[b].status = "awaiting_payment"
    \/ bookings[b].status = "pending" /\ LockHeld(b)

\* C2: in every reachable state, an equipment whose availability flag is true has no
\* booking in status awaiting_payment, nor one in status pending after the lock step.
AvailableImpliesNoActiveBooking ==
    \A b \in BookingIds :
        ActiveBooking(b) => ~equipment[bookings[b].equipmentId].availability

\* ------------------------------------------------------------------- C3
\* the step is a write of the owner's PATCH routes
OwnerWrites ==
    \E u \in Users, e \in RequestEquipIds, a \in BOOLEAN :
        PatchAvailability(u, e, a) \/ PatchEquipment(u, e, a)

\* some booking on equipment e went through a payment order and is paid
PaidOn(e) ==
    \E b \in BookingIds : /\ bookings[b].equipmentId = e
                          /\ bookings[b].status = "paid"
                          /\ bookings[b].razorpayOrderId # 0

\* C3: once a booking on an equipment is paid and the equipment's availability flag is
\* false, the flag stays false whatever create, confirm or rollback step follows, even
\* with webhook signature verification switched on.
PaidKeepsUnavailable ==
    [][\A e \in DOMAIN equipment :
          (/\ PaidOn(e)
           /\ ~equipment[e].availability
           /\ webhookSecret # NoSecret
           /\ ~OwnerWrites)
          => ~equipment'[e].availability]_vars

\* ------------------------------------------------------------------- C4
\* C4: whenever payment-session creation fails for a new booking, the create request
\* returns with the booking in status payment_failed and the equipment's availability
\* flag true.
SessionFailureRollsBack ==
    [][\A p \in Slots :
          (procs[p].kind = "create" /\ procs[p].failed /\ procs'[p].pc = "done")
          => /\ bookings'[procs[p].bk].status = "payment_failed"
             /\ equipment'[bookings[procs[p].bk].equipmentId].availability]_vars

\* ------------------------------------------------------------------- C5
\* the create handler of booking b has not returned yet
CreateInFlight(b) ==
    \E p \in Slots : procs[p].kind = "create" /\ procs[p].bk = b /\ ~Free(p)

\* C5: after a create request has returned, its booking is never left in status pending,
\* even when a storage or gateway call, or a rollback write, fails.
NoPendingAfterCreateReturns ==
    \A b \in BookingIds : bookings[b].status = "pending" => CreateInFlight(b)

\* ------------------------------------------------------------------- C6
\* C6: paid and payment_failed are terminal: no operation, whether verify-payment or a
\* webhook, moves a paid booking to payment_failed or a payment_failed booking to paid.
TerminalStatusesStay ==
    [][\A b \in BookingIds :
          /\ bookings[b].status = "paid" => bookings'[b].status # "payment_failed"
          /\ bookings[b].status = "payment_failed" => bookings'[b].status # "paid"]_vars

\* ------------------------------------------------------------------- C7
\* C7: with requests served one at a time, every accepted verify-payment call, the
\* second one for an already paid booking included, leaves the booking with exactly
\* one receipt.
ConfirmKeepsOneReceipt ==
    (response.route = "verify" /\ response.code = "200")
    => Cardinality(ReceiptsOf(receipts[response.id].bookingId)) = 1

\* ------------------------------------------------------------------- C8
\* C8: for every booking at most one receipt record ever exists, whatever confirm and
\* receipt requests are made, one after another or concurrently, even with webhook
\* signature verification switched on.
AtMostOneReceiptPerBooking ==
    webhookSecret # NoSecret => \A b \in BookingIds : Cardinality(ReceiptsOf(b)) <= 1

\* ------------------------------------------------------------------- C9
\* C9: every receipt's amount equals its booking's totalPrice, in the same currency
\* unit, on whichever path the receipt was created.
ReceiptAmountIsTotalPrice ==
    \A r \in ReceiptIds : receipts[r].amount = bookings[receipts[r].bookingId].totalPrice

\* ------------------------------------------------------------------ C10
\* the signature header was checked against RAZORPAY_WEBHOOK_SECRET and matched
SignatureVerified(header, body) ==
    webhookSecret # NoSecret /\ header = Hmac(webhookSecret, body)

\* C10: a webhook request whose signature was not verified against
\* RAZORPAY_WEBHOOK_SECRET changes no booking, equipment or receipt.
UnverifiedWebhookChangesNothing ==
    [][\A p \in Slots, body \in WebhookBodies :
          \A header \in WebhookHeaders(body) :
              (WebhookStart(p, header, body) /\ ~SignatureVerified(header, body))
              => UNCHANGED <<bookings, equipment, receipts>>]_vars

\* ------------------------------------------------------------------ C11
\* C11: a verify-payment request whose proof fails verification is rejected with
\* "invalid signature" and changes no booking (status, payment ids), no equipment flag
\* and no receipt, so the booking is as open to a valid confirm as it was before.
InvalidProofChangesNothing ==
    [][response'.route \in {"verify", "none"}
       => \A p \in Slots, b \in BookingIds, o \in RequestOrderIds, pay \in PaymentIds :
             \A sig \in ProofSignatures(o, pay) :
                 (/\ VerifyStart(p, b, o, pay, sig)
                  /\ HasEquipment(bookings[b].equipmentId)
                  /\ sig # Hmac(KeySecret, <<o, pay>>))
                 => /\ response'.code = "400_invalid_signature"
                    /\ UNCHANGED <<bookings, equipment, receipts, procs>>]_vars

\* an awaiting_payment booking whose confirm was just rejected for its signature
InvalidProofRejected ==
    /\ response.route = "verify"
    /\ response.code = "400_invalid_signature"
    /\ bookings[response.id].status = "awaiting_payment"

\* ------------------------------------------------------------------ C12
\* what verify-payment writes when it confirms booking b with payment pay, run alone:
\* updateBooking({ status: 'paid', razorpayPaymentId }); the equipment is not written
VerifyConfirmEffect(b, pay) ==
    [bookings |-> [bookings EXCEPT ![b].status = "paid", ![b].razorpayPaymentId = pay],
     equipment |-> equipment]

\* what the webhook writes when it confirms booking b with payment pay, run alone:
\* updateBooking({ status: 'paid', razorpayPaymentId }), updateEquipment({ availability: false })
WebhookConfirmEffect(b, pay) ==
    [bookings |-> [bookings EXCEPT ![b].status = "paid", ![b].razorpayPaymentId = pay],
     equipment |-> SetAvailability(bookings[b].equipmentId, FALSE)]

\* C12: confirming the same awaiting_payment booking through verify-payment and through
\* the webhook leads to the same booking status and payment id and to the same
\* equipment availability flag.
ConfirmPathsAgree ==
    \A b \in BookingIds, pay \in PaymentIds :
        bookings[b].status = "awaiting_payment"
        => VerifyConfirmEffect(b, pay) = WebhookConfirmEffect(b, pay)

\* ------------------------------------------------------------------ C13
\* inclusiveDayCount = ceil((end - start) / 1 day) + 1
InclusiveDayCount(s, t) == CeilDiv(t - s, MsPerDay) + 1

RejectedCreatePersistsNothing ==
    [][response'.route \in {"create", "none"}
       =>
       /\ \A p \in Slots, u \in Renters, e \in RequestEquipIds, r \in AllRanges :
             CreateStart(p, u, e, r[1], r[2])
             => /\ ~HasEquipment(e)
                   => /\ response'.code = "404_equipment_not_found"
                      /\ UNCHANGED <<bookings, equipment, receipts, procs>>
                /\ (HasEquipment(e) /\ ~equipment[e].availability)
                   => /\ response'.code = "400_not_available"
                      /\ UNCHANGED <<bookings, equipment, receipts, procs>>
       /\ \A p \in Slots :
             (/\ CreateCheck(p)
              /\ ~CheckEquipmentAvailability(procs[p].e, procs[p].s, procs[p].t))
             => /\ response'.code = "400_no_longer_available"
                /\ procs'[p] = Idle
                /\ UNCHANGED <<bookings, equipment, receipts>>]_vars

\* a create request was just rejected for a conflict of its range with a booking that
\* holds the slot, on an equipment whose flag is true
CreateRejectedForConflict ==
    /\ response.route = "create"
    /\ response.code = "400_no_longer_available"
    /\ \E e \in DOMAIN equipment : equipment[e].availability

SuccessfulConfirmOutcome ==
    (/\ response.route = "verify"
     /\ response.code = "200"
     /\ Cardinality(ReceiptsOf(receipts[response.id].bookingId)) = 1)
    => LET r == receipts[response.id]
           b == bookings[r.bookingId]
       IN /\ b.status = "paid"
          /\ b.razorpayPaymentId = r.razorpayPaymentId
          /\ b.razorpayPaymentId # "none"
          /\ r.amount = b.totalPrice
          /\ r.start = b.startDate
          /\ r.end = b.endDate

\* ------------------------------------------------------------------ C17
\* C17: a payment-failure webhook event that the server accepts, about the payment of
\* the gateway order stored on a booking, transitions that booking to payment_failed.
WebhookFailureFailsItsBooking ==
    [][\A p \in Slots, body \in WebhookBodies, b \in BookingIds :
          \A header \in WebhookHeaders(body) :
              (/\ WebhookStart(p, header, body)
               /\ SignatureAccepted(header, body)
               /\ body.status = "failed"
               /\ bookings[b].razorpayOrderId = body.order_id)
              => bookings'[b].status = "payment_failed"]_vars

\* ------------------------------------------------------------------ C18
\* some booking that holds the slot on equipment e intersects [s, t]
HeldWithin(e, s, t) ==
    \E b \in BookingIds :
        /\ bookings[b].equipmentId = e
        /\ bookings[b].status \in {"pending", "awaiting_payment", "paid"}
        /\ bookings[b].startDate <= t
        /\ bookings[b].endDate >= s

AvailabilityResponseCarriesRange ==
    [][response'.route = "availability"
       => \A e \in DOMAIN equipment, now \in Times, qs \in QueryDates, qt \in QueryDates :
          (GetAvailability(e, now, qs, qt) /\ response'.code = "200")
          => /\ response'.startDate # NoDate
             /\ response'.endDate # NoDate
             /\ response'.startDate >= now
             /\ response'.endDate > response'.startDate]_vars

\* C19, amended: every successful response of the availability query for an equipment
\* whose availability flag is true carries the boolean and the resolved range, with
\* start >= now and end > start (a past start is replaced by now, an end not after the
\* start by start + 30 days); for an equipment whose flag is false the response carries
\* the boolean false and no range.
AvailabilityResponseRange ==
    [][response'.route = "availability"
       => \A e \in DOMAIN equipment, now \in Times, qs \in QueryDates, qt \in QueryDates :
          GetAvailability(e, now, qs, qt)
          => /\ response'.code = "200"
             /\ equipment[e].availability
                => /\ response'.startDate # NoDate
                   /\ response'.startDate >= now
                   /\ (qs # NoDate /\ qs >= now) => response'.startDate = qs
                   /\ response'.endDate > response'.startDate
                   /\ (qt # NoDate /\ qt > response'.startDate) => response'.endDate = qt
                   /\ (qt # NoDate /\ qt <= response'.startDate)
                      => response'.endDate = response'.startDate + 30 * MsPerDay
             /\ ~equipment[e].availability
                => /\ ~response'.available
                   /\ response'.startDate = NoDate
                   /\ response'.endDate = NoDate]_vars

\* the query has just answered with a range whose end was replaced by start + 30 days
\* and whose start is later than the earliest instant
QueryAnsweredWithRange ==
    /\ response.route = "availability"
    /\ response.code = "200"
    /\ response.startDate > 0
    /\ response.endDate = response.startDate + 30 * MsPerDay

ReceiptsBelongToPaidBookings ==
    \A r \in ReceiptIds :
        bookings[receipts[r].bookingId].razorpayOrderId # 0
        => bookings[receipts[r].bookingId].status = "paid"

\* ------------------------------------------------------------------ C22
\* C22: for every receipt of a paid booking over more than one day, the day count used
\* for the price at create, the day count printed on the PDF receipt and the day count
\* shown in the receipt-history detail view are equal.
DayCountsAgree ==
    \A r \in ReceiptIds :
        LET b == bookings[receipts[r].bookingId] IN
        (b.status = "paid" /\ b.razorpayOrderId # 0 /\ b.startDate < b.endDate)
        => /\ TotalDays(b.startDate, b.endDate) = RentalDays(b.startDate, b.endDate)
           /\ RentalDays(b.startDate, b.endDate)
              = DaysRented(receipts[r].start, receipts[r].end)

\* ------------------------------------------------------------------ C23
\* C23: for every receipt of a paid booking, the amount shown on the receipt-history
\* page and on the "Total Amount Paid" line of the PDF equals the booking's total price.
DisplayedAmountIsTotalPrice ==
    \A r \in ReceiptIds :
        LET b == bookings[receipts[r].bookingId] IN
        (b.status = "paid" /\ b.razorpayOrderId # 0)
        => /\ FormatRupees(receipts[r].amount) = b.totalPrice
           /\ FormatAmount(receipts[r].amount) = b.totalPrice

\* ------------------------------------------------------------------ C24
\* C24: every booking that reaches awaiting_payment eventually reaches paid or
\* payment_failed, whether or not a confirmation or failure callback arrives for it.
AwaitingPaymentIsResolved ==
    \A b \in 1..MaxBookings :
        (b \in BookingIds /\ bookings[b].status = "awaiting_payment")
        ~> (b \in BookingIds /\ bookings[b].status \in {"paid", "payment_failed"})

\* ------------------------------------------------------------------ C25
\* C25: a webhook event about gateway order O changes only a booking whose stored
\* razorpayOrderId is O (stated for bookings whose payment session was created).
WebhookSelectsByOrderId ==
    [][\A p \in Slots, body \in WebhookBodies :
          \A header \in WebhookHeaders(body) :
              WebhookStart(p, header, body)
              => \A b \in BookingIds :
                    (bookings[b].razorpayOrderId # 0 /\ bookings'[b] # bookings[b])
                    => bookings[b].razorpayOrderId = body.order_id]_vars

\* ------------------------------------------------------------------ C26
\* C26: verify-payment marks a booking paid only if the submitted gateway order id is the
\* payment-session id stored on that booking (stated for bookings whose payment session
\* was created).
VerifyBindsOrderToBooking ==
    [][response'.route \in {"verify", "none"}
       => \A p \in Slots, b \in BookingIds, o \in RequestOrderIds, pay \in PaymentIds :
             \A sig \in ProofSignatures(o, pay) :
                 (/\ VerifyStart(p, b, o, pay, sig)
                  /\ bookings[b].razorpayOrderId # 0
                  /\ bookings[b].status # "paid"
                  /\ bookings'[b].status = "paid")
                 => bookings[b].razorpayOrderId = o]_vars

\* ------------------------------------------------------------------ C27
\* C27: a GET /api/bookings/:id/receipt request by a user who does not own the booking is
\* never answered with the receipt and never goes on to create one.
NonOwnerGetsNoReceipt ==
    [][response'.route \in {"receipt", "none"}
       => \A p \in Slots, u \in Users, b \in BookingIds :
             (ReceiptStart(p, u, b) /\ HasBooking(b) /\ bookings[b].userId # u)
             => /\ response'.code # "200"
                /\ procs'[p].pc # "receipt_create"]_vars

\* ------------------------------------------------------------------ C28
\* C28: a receipt written by the server's receipt-creation paths is a fixed point of the
\* fix-receipts script: a run of the script changes no receipt unless an earlier run
\* was needed, and in this system only the server and the script write receipts.
ServerReceiptsAreFixedPoints ==
    [][FixReceiptAmounts => receipts' = receipts]_vars

\* after any run of the script every receipt's amount is its booking's totalPrice, and
\* running the script again would change nothing
ScriptFixesAmounts ==
    [][FixReceiptAmounts
       => \A r \in ReceiptIds :
             /\ receipts'[r].amount = bookings[receipts[r].bookingId].totalPrice
             /\ FixedAmount(receipts'[r].amount,
                            bookings[receipts[r].bookingId].totalPrice)
                = receipts'[r].amount]_vars

\* C29: every text passed to speak() is in the end spoken to its end, as long as the
\* effect's cleanup has not run: the debounce drops none and the queue does not stall.
SpokenTexts == {voice.spoken[i] : i \in 1..Len(voice.spoken)}

EveryTextIsSpoken ==
    \A text \in 1..MaxSpeakCalls :
        (voice.speakCalls >= text) ~> (text \in SpokenTexts \/ voice.cleanups > 0)

\* C30: isSpeakingRef is reset, while the component stays mounted, only by the end of an
\* utterance, so that no utterance starts while the one before is still under way.
IsSpeakingRefResetByUtteranceEnd ==
    [][voice.isSpeakingRef /\ ~voice'.isSpeakingRef /\ voice'.mounted
           => voice'.spoken # voice.spoken \/ voice'.pendingEnds < voice.pendingEnds]_vars

UtterancesUnderWay == Len(voice.pendingSpeak) + Len(voice.synth)

AtMostOneUtterance == UtterancesUnderWay <= 1

====
